---- MODULE Spec2Model ----
(***************************************************************************)
(* Model of the challenge chat page (client/src/pages/ChallengeChatPage.tsx):*)
(* the cached message list with its optimistic send and optimistic reaction *)
(* toggle, the re-fetch of the list, the typing indicator fed by the second *)
(* transport, and the local typing debounce.                                *)
(*                                                                          *)
(* Time is counted in whole seconds.  A timer is a record with the seconds  *)
(* it has left; Tick lets one second pass and is disabled while a timer is  *)
(* due, so a timer's callback runs exactly when its delay has elapsed.      *)
(***************************************************************************)
EXTENDS Integers, Sequences, FiniteSets, TLC

\* ---------------------------------------------------------------- bounds
MaxMsgs == 2
MaxCache == 3
MaxCreates == 2
MaxSends == 2
MaxReacts == 1
MaxTimers == 3
MaxLen == 2
MaxText == 6
MaxListed == 2
MaxQuery == 2
MaxParticipants == 6
MaxSegments == 3

\* ------------------------------------------------------- program constants
TYPING_TTL == 5
TYPING_STOP_DELAY == 3

\* ------------------------------------------------------------ value sets
ME == "me"
Others == {"u2"}
Users == {ME} \cup Others
RemoteUsers == {"A", "B"}
AllUsers == RemoteUsers \cup {ME}
Emojis == {"e1", "e2"}
ROOM == 1
OTHER_ROOM == 2
\* A cached value is NoData (nothing cached: undefined) or Some(list).
NoData == <<>>
Some(list) == <<list>>
Data(cached) == cached[1]
NoUser == "nouser"
None == "none"

VARIABLES
    store,            \* the message store's list (authoritative), oldest first
    cache,            \* query cache entry [.., challengeId, "messages"]: NoData or a list
    fetch,            \* the list query's request: [st |-> "idle" | "sent" | "answered", resp]
    creates,          \* create requests in flight
    reacts,           \* reaction-toggle requests in flight, each with its onMutate context
    sendSeq,          \* stands for Date.now() in the temporary id
    typingUsers,      \* useState typingUsers
    timers,           \* pending setTimeout callbacks, in creation order
    typingTimeoutRef, \* "unset" or "set" (truthiness of typingTimeoutRef.current)
    newMessage,       \* useState newMessage
    showMentions,     \* useState showMentions
    mentionQuery,     \* useState mentionQuery
    replyingTo,       \* useState replyingTo: None or a message id
    isConnected,      \* useWebSocket's isConnected
    user,             \* useAuth's user: NoUser or ME
    mounted,          \* the component is mounted
    notice,           \* the last toast shown
    sent,             \* the signals handed to sendMessage by the last step, in order
    lastOp,           \* the last step taken and its arguments
    lastCache,        \* the cached value before lastOp
    prevOp,           \* the step before lastOp
    prevCache,        \* the cached value before prevOp
    sinceStart,       \* per remote user: seconds since the latest typing-start (capped)
    stopSince,        \* per remote user: a typing-stop arrived after the latest typing-start
    sinceSignal,      \* seconds since the latest typing signal of any user (capped)
    sinceEdit,        \* seconds since the latest edit that announced typing (capped)
    profile,          \* the signed-in user's firstName and username (None when absent)
    participants,     \* the participants query's data, [] until answered
    searchQuery,      \* useState searchQuery
    searchResults,    \* useState searchResults
    joined,           \* a join signal has been sent since the page was opened
    lastPresence,     \* the type of the latest join or leave signal sent, None before the first
    dbPc,             \* initializeDatabase (server/initDb.ts): "idle", "loop", "returned" or "threw"
    statements,       \* initializeDatabase: the statements of the migration file
    stmtIndex,        \* initializeDatabase: the loop's i
    successCount,     \* initializeDatabase: successCount
    skipCount,        \* initializeDatabase: skipCount
    errorCount,       \* initializeDatabase: errorCount
    executed          \* the file positions of the statements handed to pool.query, in order

chatVars == <<store, cache, fetch, creates, reacts, sendSeq, notice>>
typingVars == <<typingUsers, sinceStart, stopSince, sinceSignal>>
inputVars == <<newMessage, showMentions, mentionQuery, replyingTo>>
localVars == <<typingTimeoutRef, isConnected, user, mounted, sinceEdit>>
histVars == <<lastOp, lastCache, prevOp, prevCache>>
dbVars == <<dbPc, statements, stmtIndex, successCount, skipCount, errorCount, executed>>
pageVars == <<profile, participants, searchQuery, searchResults, joined, lastPresence, dbVars>>
vars == <<chatVars, typingVars, inputVars, localVars, histVars, pageVars, timers, sent>>

\* ------------------------------------------------------------- sequences
RECURSIVE SeqsOver(_, _)
SeqsOver(S, n) ==
    IF n = 0 THEN {<<>>}
    ELSE LET shorter == SeqsOver(S, n - 1)
         IN shorter \cup {Append(s, x) : s \in {t \in shorter : Len(t) = n - 1}, x \in S}

Map(s, F(_)) == [i \in DOMAIN s |-> F(s[i])]

Filter(s, P(_)) == SelectSeq(s, P)

\* Array.prototype.find: the first element satisfying P (when there is one)
Found(s, P(_)) == \E i \in DOMAIN s : P(s[i])

Find(s, P(_)) ==
    s[CHOOSE i \in DOMAIN s : P(s[i]) /\ \A j \in 1..(i - 1) : ~P(s[j])]

\* ------------------------------------------------------ messages, reactions
\* message.reactions || []
Reactions(message) ==
    IF "reactions" \in DOMAIN message THEN message.reactions ELSE <<>>

\* { ...message, reactions: rs }
WithReactions(message, rs) ==
    [f \in (DOMAIN message) \cup {"reactions"} |->
        IF f = "reactions" THEN rs ELSE message[f]]

IsTemp(id) == id < 0

\* mutants of ToggleMessage: the not-yet-reacted branch forgets the flag
ToggleMessage_KeepFlag(message, emoji) ==
    LET reactions == Reactions(message)
        existingReaction == Find(reactions, LAMBDA r : r.emoji = emoji)
    IN  IF Found(reactions, LAMBDA r : r.emoji = emoji)
        THEN IF existingReaction.userReacted
             THEN WithReactions(message,
                    IF existingReaction.count = 1
                    THEN Filter(reactions, LAMBDA r : r.emoji # emoji)
                    ELSE Map(reactions, LAMBDA r :
                            IF r.emoji = emoji
                            THEN [r EXCEPT !.count = r.count - 1, !.userReacted = FALSE]
                            ELSE r))
             ELSE WithReactions(message,
                    Map(reactions, LAMBDA r :
                            IF r.emoji = emoji
                            THEN [r EXCEPT !.count = r.count + 1]
                            ELSE r))
        ELSE WithReactions(message,
                Append(reactions, [emoji |-> emoji, count |-> 1, userReacted |-> TRUE]))

\* the removal keeps the toggled entry and drops the others
ToggleMessage_WrongFilter(message, emoji) ==
    LET reactions == Reactions(message)
        existingReaction == Find(reactions, LAMBDA r : r.emoji = emoji)
    IN  IF Found(reactions, LAMBDA r : r.emoji = emoji)
        THEN IF existingReaction.userReacted
             THEN WithReactions(message,
                    IF existingReaction.count = 1
                    THEN Filter(reactions, LAMBDA r : r.emoji = emoji)
                    ELSE Map(reactions, LAMBDA r :
                            IF r.emoji = emoji
                            THEN [r EXCEPT !.count = r.count - 1, !.userReacted = FALSE]
                            ELSE r))
             ELSE WithReactions(message,
                    Map(reactions, LAMBDA r :
                            IF r.emoji = emoji
                            THEN [r EXCEPT !.count = r.count + 1, !.userReacted = TRUE]
                            ELSE r))
        ELSE WithReactions(message,
                Append(reactions, [emoji |-> emoji, count |-> 1, userReacted |-> TRUE]))

\* the removal is tested against count 0 instead of count 1
ToggleMessage_OffByOne(message, emoji) ==
    LET reactions == Reactions(message)
        existingReaction == Find(reactions, LAMBDA r : r.emoji = emoji)
    IN  IF Found(reactions, LAMBDA r : r.emoji = emoji)
        THEN IF existingReaction.userReacted
             THEN WithReactions(message,
                    IF existingReaction.count = 0
                    THEN Filter(reactions, LAMBDA r : r.emoji # emoji)
                    ELSE Map(reactions, LAMBDA r :
                            IF r.emoji = emoji
                            THEN [r EXCEPT !.count = r.count - 1, !.userReacted = FALSE]
                            ELSE r))
             ELSE WithReactions(message,
                    Map(reactions, LAMBDA r :
                            IF r.emoji = emoji
                            THEN [r EXCEPT !.count = r.count + 1, !.userReacted = TRUE]
                            ELSE r))
        ELSE WithReactions(message,
                Append(reactions, [emoji |-> emoji, count |-> 1, userReacted |-> TRUE]))

\* the branch of onMutate's map callback taken for the targeted message
ToggleMessage(message, emoji) ==
    LET reactions == Reactions(message)
        existingReaction == Find(reactions, LAMBDA r : r.emoji = emoji)
    IN  IF Found(reactions, LAMBDA r : r.emoji = emoji)
        THEN IF existingReaction.userReacted
             THEN WithReactions(message,
                    IF existingReaction.count = 1
                    THEN Filter(reactions, LAMBDA r : r.emoji # emoji)
                    ELSE Map(reactions, LAMBDA r :
                            IF r.emoji = emoji
                            THEN [r EXCEPT !.count = r.count - 1, !.userReacted = FALSE]
                            ELSE r))
             ELSE WithReactions(message,
                    Map(reactions, LAMBDA r :
                            IF r.emoji = emoji
                            THEN [r EXCEPT !.count = r.count + 1, !.userReacted = TRUE]
                            ELSE r))
        ELSE WithReactions(message,
                Append(reactions, [emoji |-> emoji, count |-> 1, userReacted |-> TRUE]))

\* mutant of OptimisticToggle: the id is not compared, every message is toggled
OptimisticToggle_EveryMessage(old, messageId, emoji) ==
    IF old = NoData THEN old
    ELSE Some(Map(Data(old), LAMBDA message : ToggleMessage(message, emoji)))

\* the updater handed to setQueryData in onMutate
OptimisticToggle(old, messageId, emoji) ==
    IF old = NoData THEN old
    ELSE Some(Map(Data(old), LAMBDA message :
            IF message.id = messageId THEN ToggleMessage(message, emoji) ELSE message))

\* ------------------------------------------------------- the message store
\* The store keeps, per message and emoji, the set of users who reacted.  The
\* list endpoint reports each entry with its count and the viewer's flag.
ViewReaction(r) ==
    [emoji |-> r.emoji, count |-> Cardinality(r.users), users |-> r.users,
     userReacted |-> ME \in r.users]

ViewMessage(m) ==
    [id |-> m.id, userId |-> m.userId, message |-> m.message,
     reactions |-> Map(m.reactions, ViewReaction)]

ListMessages(st) == Map(st, ViewMessage)

\* the store's toggle of user u's reaction e on one stored message
StoreToggleMessage(m, u, e) ==
    IF \E i \in DOMAIN m.reactions : m.reactions[i].emoji = e
    THEN LET toggled == Map(m.reactions, LAMBDA r :
                            IF r.emoji = e
                            THEN [r EXCEPT !.users =
                                    IF u \in r.users THEN r.users \ {u} ELSE r.users \cup {u}]
                            ELSE r)
         IN [m EXCEPT !.reactions = Filter(toggled, LAMBDA r : r.users # {})]
    ELSE [m EXCEPT !.reactions = Append(m.reactions, [emoji |-> e, users |-> {u}])]

StoreToggle(st, id, u, e) ==
    Map(st, LAMBDA m : IF m.id = id THEN StoreToggleMessage(m, u, e) ELSE m)

\* --------------------------------------------------- bounded input values
\* reaction lists the list endpoint can report: one entry per emoji
StoredReactionLists ==
    {rs \in SeqsOver([emoji : Emojis, users : (SUBSET Users) \ {{}}], Cardinality(Emojis)) :
        \A i, j \in DOMAIN rs : i # j => rs[i].emoji # rs[j].emoji}

ListedMessages(id) ==
    {[id |-> id, userId |-> "u2", message |-> <<"a">>]}
    \cup {[id |-> id, userId |-> "u2", message |-> <<"a">>,
           reactions |-> Map(rs, ViewReaction)] : rs \in StoredReactionLists}

RECURSIVE ListedLists(_)
ListedLists(n) ==
    IF n = 0 THEN {<<>>}
    ELSE {Append(l, m) : l \in ListedLists(n - 1), m \in ListedMessages(n)}

\* -------------------------------------------------------------- the state
\* no toast has been shown
NoNotice == [title |-> None, description |-> None]

NoOp == [op |-> "none", messageId |-> 0, emoji |-> None]

InitRest ==
    /\ creates = <<>>
    /\ reacts = <<>>
    /\ sendSeq = 0
    /\ typingUsers = <<>>
    /\ timers = <<>>
    /\ typingTimeoutRef = "unset"
    /\ newMessage = <<>>
    /\ showMentions = FALSE
    /\ mentionQuery = <<>>
    /\ replyingTo = None
    /\ isConnected = FALSE
    /\ mounted = TRUE
    /\ notice = NoNotice
    /\ sent = <<>>
    /\ lastOp = NoOp
    /\ prevOp = NoOp
    /\ sinceStart = [u \in AllUsers |-> TYPING_TTL + 1]
    /\ stopSince = [u \in AllUsers |-> FALSE]
    /\ sinceSignal = TYPING_TTL + 1
    /\ sinceEdit = TYPING_STOP_DELAY + 1
    /\ searchQuery = <<>>
    /\ searchResults = <<>>
    /\ joined = FALSE
    /\ lastPresence = None
    /\ dbPc = "idle"
    /\ statements = <<>>
    /\ stmtIndex = 0
    /\ successCount = 0
    /\ skipCount = 0
    /\ errorCount = 0
    /\ executed = <<>>

Record(op, messageId, emoji) ==
    /\ lastOp' = [op |-> op, messageId |-> messageId, emoji |-> emoji]
    /\ lastCache' = cache
    /\ prevOp' = lastOp
    /\ prevCache' = lastCache

\* ------------------------------------------------------------- signals
\* what the page hands to useWebSocket's sendMessage
TypingSignal(isTyping) == [type |-> "user_typing", isTyping |-> isTyping]
\* mutant of Signal: nothing recognisable is handed over
Signal_Untyped(type) == [type |-> None]

Signal(type) == [type |-> type]

\* ---------------------------------------------------------------- timers
StopTimer == [kind |-> "typingStop", user |-> None, left |-> TYPING_STOP_DELAY, ref |-> TRUE]
ExpiryTimer(u) == [kind |-> "typingExpiry", user |-> u, left |-> TYPING_TTL, ref |-> FALSE]

\* mutant of ClearTypingTimeout: the timer is left pending
ClearTypingTimeout_Noop(ts) == ts

\* if (typingTimeoutRef.current) clearTimeout(typingTimeoutRef.current)
ClearTypingTimeout(ts) ==
    IF typingTimeoutRef = "set" THEN Filter(ts, LAMBDA t : ~t.ref) ELSE ts

\* typingTimeoutRef.current = setTimeout(..., 3000): the ref now holds the new timer
ScheduleStop(ts) == Append(Map(ts, LAMBDA t : [t EXCEPT !.ref = FALSE]), StopTimer)

\* ------------------------------------------------------- the list query
FetchIdle == [st |-> "idle", resp |-> <<>>]

\* mutant of Refetch: no request is made
Refetch_Idle == [st |-> "idle", resp |-> <<>>]

\* refetchMessages() / invalidateQueries(): a request already in flight is
\* cancelled and a new one is made
Refetch == [st |-> "sent", resp |-> <<>>]

\* the list endpoint answers with the store's list, or the request fails
FetchServe ==
    /\ fetch.st = "sent"
    /\ \/ fetch' = [st |-> "answered", resp |-> ListMessages(store)]
       \/ fetch' = [st |-> "failed", resp |-> <<>>]
    /\ UNCHANGED <<pageVars, store, cache, creates, reacts, sendSeq, notice, typingVars,
                   inputVars, localVars, histVars, timers, sent>>

\* the answer replaces the whole cached value
FetchResolve ==
    /\ mounted
    /\ fetch.st = "answered"
    /\ cache' = Some(fetch.resp)
    /\ fetch' = FetchIdle
    /\ sent' = <<>>
    /\ UNCHANGED <<pageVars, store, creates, reacts, sendSeq, notice, typingVars, inputVars,
                   localVars, histVars, timers>>

\* retry: false
FetchFail ==
    /\ mounted
    /\ fetch.st = "failed"
    /\ fetch' = FetchIdle
    /\ UNCHANGED <<pageVars, store, cache, creates, reacts, sendSeq, notice, typingVars,
                   inputVars, localVars, histVars, timers, sent>>

\* ------------------------------------------------------------------ send
Blank(text) == \A i \in DOMAIN text : text[i] = " "

\* \w of the regular expression
WordChars == {"a", "b", "A", "B", "_"}

IsWordChar(c) == c \in WordChars

\* the end of the run of word characters that starts at position j
RunEnd(text, j) ==
    CHOOSE k \in j..Len(text) :
        /\ \A m \in j..k : IsWordChar(text[m])
        /\ k = Len(text) \/ ~IsWordChar(text[k + 1])

\* mentionRegex.exec(text) from lastIndex i on, until it returns null: the
\* first '@' at or after i that a word character follows, the run after it,
\* and on from the end of that run
RECURSIVE ExecFrom(_, _)
ExecFrom(text, i) ==
    LET starts == {j \in i..(Len(text) - 1) : text[j] = "@" /\ IsWordChar(text[j + 1])}
    IN  IF starts = {} THEN <<>>
        ELSE LET j == CHOOSE x \in starts : \A y \in starts : x <= y
                 k == RunEnd(text, j + 1)
             IN  <<SubSeq(text, j + 1, k)>> \o ExecFrom(text, k + 1)

\* mutant of ExtractMentions: only the first match is kept
ExtractMentions_FirstOnly(text) ==
    IF ExecFrom(text, 1) = <<>> THEN <<>> ELSE <<Head(ExecFrom(text, 1))>>

\* extractMentions
ExtractMentions(text) == ExecFrom(text, 1)

TempMessage(n, text) ==
    [id |-> 0 - n, userId |-> ME, message |-> text, reactions |-> <<>>,
     mentions |-> ExtractMentions(text)]

\* mutant of AppendProvisional: the provisional message is put first
AppendProvisional_Prepend(old, tempMessage) ==
    IF old = NoData THEN Some(<<tempMessage>>) ELSE Some(<<tempMessage>> \o Data(old))

\* the updater handed to setQueryData in handleSendMessage
AppendProvisional(old, tempMessage) ==
    IF old = NoData THEN Some(<<tempMessage>>) ELSE Some(Append(Data(old), tempMessage))

CachedIds(cached) ==
    IF cached = NoData THEN {} ELSE {Data(cached)[i].id : i \in DOMAIN Data(cached)}

CachedLen(cached) == IF cached = NoData THEN 0 ELSE Len(Data(cached))

HandleSendMessage ==
    /\ mounted
    /\ user # NoUser
    /\ ~Blank(newMessage)
    /\ Len(creates) < MaxCreates
    /\ sendSeq < MaxSends
    /\ CachedLen(cache) < MaxCache
    /\ timers' = ClearTypingTimeout(timers)
    /\ sent' = IF isConnected THEN <<TypingSignal(FALSE)>> ELSE <<>>
    /\ LET tempMessage == TempMessage(sendSeq + 1, newMessage)
           shown == AppendProvisional(cache, tempMessage)
       IN  /\ cache' = shown
           /\ creates' = Append(creates,
                  [message |-> newMessage, replyToId |-> replyingTo,
                   mentions |-> ExtractMentions(newMessage), st |-> "sent",
                   id |-> 0, error |-> None,
                   provisionalCached |-> tempMessage.id \in CachedIds(shown)])
    /\ sendSeq' = sendSeq + 1
    /\ newMessage' = <<>>
    /\ showMentions' = FALSE
    /\ mentionQuery' = <<>>
    /\ replyingTo' = None
    /\ UNCHANGED <<pageVars, store, fetch, reacts, notice, typingVars, typingTimeoutRef,
                   isConnected, user, mounted, sinceEdit, histVars>>

\* the create endpoint stores the message, or the request fails
CreateServe(errors) ==
    \E k \in DOMAIN creates :
        /\ creates[k].st = "sent"
        /\ \/ /\ Len(store) < MaxMsgs
              /\ store' = Append(store, [id |-> Len(store) + 1, userId |-> ME,
                                         message |-> creates[k].message, reactions |-> <<>>])
              /\ creates' = [creates EXCEPT ![k].st = "ok", ![k].id = Len(store) + 1]
           \/ /\ \E e \in errors :
                    creates' = [creates EXCEPT ![k].st = "failed", ![k].error = e]
              /\ UNCHANGED store
        /\ UNCHANGED <<pageVars, cache, fetch, reacts, sendSeq, notice, typingVars, inputVars,
                       localVars, histVars, timers, sent>>

RemoveAt(s, k) == SubSeq(s, 1, k - 1) \o SubSeq(s, k + 1, Len(s))

\* sendMessageMutation.onSuccess
CreateSuccess ==
    \E k \in DOMAIN creates :
        /\ mounted
        /\ creates[k].st = "ok"
        /\ newMessage' = <<>>
        /\ replyingTo' = None
        /\ fetch' = Refetch
        /\ sent' = <<Signal("challenge_message")>>
        /\ creates' = RemoveAt(creates, k)
        /\ UNCHANGED <<pageVars, store, cache, reacts, sendSeq, notice, typingVars, showMentions,
                       mentionQuery, localVars, histVars, timers>>

RedirectTimer == [kind |-> "redirect", user |-> None, left |-> 1, ref |-> FALSE]

\* isUnauthorizedError(error)
IsUnauthorizedError(error) == error = "unauthorized"

\* mutant of ErrorNotice: every failure gets the generic notice
ErrorNotice_Generic(error) == [title |-> "Error", description |-> error]

\* the toast of sendMessageMutation.onError
ErrorNotice(error) ==
    IF IsUnauthorizedError(error)
    THEN [title |-> "Unauthorized", description |-> "You are logged out. Logging in again..."]
    ELSE [title |-> "Error", description |-> error]

\* mutant of AfterFailure: the failed request is issued again
AfterFailure_Retried(requests, k) == [requests EXCEPT ![k].st = "sent"]

\* the pending requests of a mutation once onError (and onSettled) has run for
\* the failed request k: no retry option is given, the mutation is over
AfterFailure(requests, k) == RemoveAt(requests, k)

\* mutant of CachedAfterCreateError: the provisional entries are taken out
CachedAfterCreateError_RolledBack(old) ==
    IF old = NoData THEN old ELSE Some(Filter(Data(old), LAMBDA m : ~IsTemp(m.id)))

\* the query data after sendMessageMutation.onError, which has no
\* setQueryData and no invalidateQueries
CachedAfterCreateError(old) == old

\* sendMessageMutation.onError
CreateError ==
    \E k \in DOMAIN creates :
        /\ mounted
        /\ creates[k].st = "failed"
        /\ Len(timers) < MaxTimers
        /\ notice' = ErrorNotice(creates[k].error)
        /\ timers' = IF IsUnauthorizedError(creates[k].error)
                     THEN Append(timers, RedirectTimer)
                     ELSE timers
        /\ creates' = AfterFailure(creates, k)
        /\ cache' = CachedAfterCreateError(cache)
        /\ sent' = <<>>
        /\ UNCHANGED <<pageVars, store, fetch, reacts, sendSeq, typingVars, inputVars,
                       localVars, histVars>>

\* -------------------------------------------------------- reaction toggle
\* handleReaction -> reactToMessageMutation.mutate: onMutate, then the request
HandleReaction(messageId, emoji) ==
    /\ mounted
    /\ messageId \in CachedIds(cache)
    /\ Len(reacts) < MaxReacts
    /\ fetch' = FetchIdle
    /\ LET previousMessages == cache
       IN  /\ cache' = OptimisticToggle(cache, messageId, emoji)
           /\ reacts' = Append(reacts,
                  [messageId |-> messageId, emoji |-> emoji, st |-> "sent",
                   previousMessages |-> previousMessages])
    /\ sent' = <<>>
    /\ lastOp' = [op |-> "react", messageId |-> 0, emoji |-> None]
    /\ UNCHANGED <<pageVars, store, creates, sendSeq, notice, typingVars, inputVars, localVars,
                   lastCache, prevOp, prevCache, timers>>

StoreIds(st) == {st[i].id : i \in DOMAIN st}

\* the react endpoint toggles the viewer's reaction, or the request fails
ReactServe ==
    \E k \in DOMAIN reacts :
        /\ reacts[k].st = "sent"
        /\ \/ /\ reacts[k].messageId \in StoreIds(store)
              /\ store' = StoreToggle(store, reacts[k].messageId, ME, reacts[k].emoji)
              /\ reacts' = [reacts EXCEPT ![k].st = "ok"]
           \/ /\ reacts' = [reacts EXCEPT ![k].st = "failed"]
              /\ UNCHANGED store
        /\ UNCHANGED <<pageVars, cache, fetch, creates, sendSeq, notice, typingVars, inputVars,
                       localVars, histVars, timers, sent>>

\* reactToMessageMutation.onSettled after a success
ReactSuccess ==
    \E k \in DOMAIN reacts :
        /\ mounted
        /\ reacts[k].st = "ok"
        /\ fetch' = Refetch
        /\ sent' = <<Signal("message_reaction")>>
        /\ reacts' = RemoveAt(reacts, k)
        /\ lastOp' = [op |-> "reacted", messageId |-> 0, emoji |-> None]
        /\ UNCHANGED <<pageVars, store, cache, creates, sendSeq, notice, typingVars, inputVars,
                       localVars, lastCache, prevOp, prevCache, timers>>

\* mutant of Restore: the failed toggle's optimistic value is left in place
Restore_Keep(context) == cache

\* onError's setQueryData(key, context?.previousMessages)
Restore(context) == context.previousMessages

\* reactToMessageMutation.onError, then onSettled
ReactError ==
    \E k \in DOMAIN reacts :
        /\ mounted
        /\ reacts[k].st = "failed"
        /\ cache' = Restore(reacts[k])
        /\ fetch' = Refetch
        /\ sent' = <<Signal("message_reaction")>>
        /\ reacts' = AfterFailure(reacts, k)
        /\ lastOp' = [op |-> "reactFailed", messageId |-> 0, emoji |-> None]
        /\ UNCHANGED <<pageVars, store, creates, sendSeq, notice, typingVars, inputVars,
                       localVars, lastCache, prevOp, prevCache, timers>>

\* ----------------------------------------------------------- other users
OtherPost ==
    /\ Len(store) < MaxMsgs
    /\ \E u \in Others :
        store' = Append(store, [id |-> Len(store) + 1, userId |-> u,
                                message |-> <<"a">>, reactions |-> <<>>])
    /\ UNCHANGED <<pageVars, cache, fetch, creates, reacts, sendSeq, notice, typingVars,
                   inputVars, localVars, histVars, timers, sent>>

OtherReact ==
    /\ \E u \in Others, id \in StoreIds(store), e \in Emojis :
        store' = StoreToggle(store, id, u, e)
    /\ UNCHANGED <<pageVars, cache, fetch, creates, reacts, sendSeq, notice, typingVars,
                   inputVars, localVars, histVars, timers, sent>>

\* channel.bind('new-message' | 'reaction-update', ...)
ChannelEvent ==
    /\ mounted
    /\ fetch' = Refetch
    /\ UNCHANGED <<pageVars, store, cache, creates, reacts, sendSeq, notice, typingVars,
                   inputVars, localVars, histVars, timers, sent>>

\* the event kinds the per-room channel can carry, and those the page binds
ChannelKinds == {"new-message", "reaction-update", "typing", "system-message"}

BoundKinds == {"new-message", "reaction-update"}

\* the channel delivers an event of the given kind: the bound callback runs,
\* an event of a kind that has no binding reaches no callback
ChannelDeliver(kind) ==
    /\ mounted
    /\ fetch' = IF kind \in BoundKinds THEN Refetch ELSE fetch
    /\ lastOp' = [op |-> "channel", kind |-> kind]
    /\ sent' = <<>>
    /\ UNCHANGED <<pageVars, store, cache, creates, reacts, sendSeq, notice, typingVars,
                   inputVars, localVars, lastCache, prevOp, prevCache, timers>>

\* ------------------------------------------------- the typing indicator
Cap(n, limit) == IF n < limit THEN n + 1 ELSE limit

WsMessages ==
    [type : {"challenge_message", "user_typing", "message_reaction", "system_message",
             "challenge_user_join"},
     challengeId : {ROOM, OTHER_ROOM},
     userId : AllUsers \cup {None},
     isTyping : BOOLEAN,
     username : {None, "name"}]

\* data.username || 'User'
TypingName(data) == IF data.username = None THEN "User" ELSE data.userId

\* mutant of TypingUpdate: a typing-stop leaves the list as it is
TypingUpdate_StopIgnored(prev, data) ==
    IF data.isTyping
    THEN Append(Filter(prev, LAMBDA u : u.userId # data.userId),
                [userId |-> data.userId, name |-> TypingName(data)])
    ELSE prev

\* mutant of TypingUpdate: the sender's earlier entry is not filtered out
TypingUpdate_NoFilter(prev, data) ==
    IF data.isTyping
    THEN Append(prev, [userId |-> data.userId, name |-> TypingName(data)])
    ELSE Filter(prev, LAMBDA u : u.userId # data.userId)

\* the updater handed to setTypingUsers in onMessage
TypingUpdate(prev, data) ==
    LET filtered == Filter(prev, LAMBDA u : u.userId # data.userId)
    IN  IF data.isTyping
        THEN Append(filtered, [userId |-> data.userId, name |-> TypingName(data)])
        ELSE filtered

\* mutant of TypingTimers: no expiry timer is scheduled
TypingTimers_NoTimer(ts, data) == ts

\* the timers pending after onMessage handled a typing signal: the callback's
\* return value (a function clearing the new timer) is not called by anyone
TypingTimers(ts, data) ==
    IF data.isTyping THEN Append(ts, ExpiryTimer(data.userId)) ELSE ts

\* mutant of ContentChanged: the room of the message is not compared
ContentChanged_AnyRoom(data) ==
    data.type \in {"challenge_message", "message_reaction", "system_message"}

\* the three branches of onMessage that call refetchMessages()
ContentChanged(data) ==
    /\ data.challengeId = ROOM
    /\ data.type \in {"challenge_message", "message_reaction", "system_message"}

\* useWebSocket's onMessage
OnMessage(data) ==
    /\ mounted
    /\ IF ContentChanged(data)
       THEN /\ fetch' = Refetch
            /\ UNCHANGED <<typingVars, timers>>
       ELSE IF /\ data.type = "user_typing"
               /\ data.challengeId = ROOM
               /\ data.userId # None
               /\ data.userId # user
       THEN /\ data.isTyping => Len(timers) < MaxTimers
            /\ typingUsers' = TypingUpdate(typingUsers, data)
            /\ timers' = TypingTimers(timers, data)
            /\ sinceStart' = IF data.isTyping
                             THEN [sinceStart EXCEPT ![data.userId] = 0]
                             ELSE sinceStart
            /\ stopSince' = [stopSince EXCEPT ![data.userId] = ~data.isTyping]
            /\ sinceSignal' = 0
            /\ UNCHANGED fetch
       ELSE UNCHANGED <<fetch, typingVars, timers>>
    /\ sent' = <<>>
    /\ UNCHANGED <<pageVars, store, cache, creates, reacts, sendSeq, notice, inputVars,
                   localVars, histVars>>

\* ------------------------------------------------------------------ time
Due(ts) == {i \in DOMAIN ts : ts[i].left = 0}

\* one second passes; a due timer runs first
Tick ==
    /\ Due(timers) = {}
    /\ timers' = Map(timers, LAMBDA t : [t EXCEPT !.left = t.left - 1])
    /\ sinceStart' = [u \in AllUsers |-> Cap(sinceStart[u], TYPING_TTL + 1)]
    /\ sinceSignal' = Cap(sinceSignal, TYPING_TTL + 1)
    /\ sinceEdit' = Cap(sinceEdit, TYPING_STOP_DELAY + 1)
    /\ UNCHANGED <<pageVars, chatVars, typingUsers, stopSince, inputVars, typingTimeoutRef,
                   isConnected, user, mounted, histVars, sent>>

\* the callback of the typing-expiry timer
ExpireTyping(prev, userId) == Filter(prev, LAMBDA u : u.userId # userId)

\* the oldest due timer's callback runs
TimerFire ==
    /\ Due(timers) # {}
    /\ LET i == CHOOSE k \in Due(timers) : \A j \in Due(timers) : k <= j
           t == timers[i]
       IN  /\ IF t.kind = "redirect"
              THEN /\ mounted' = FALSE
                   /\ timers' = <<>>
              ELSE /\ mounted' = mounted
                   /\ timers' = RemoveAt(timers, i)
           /\ typingUsers' = IF t.kind = "typingExpiry" /\ mounted
                             THEN ExpireTyping(typingUsers, t.user)
                             ELSE typingUsers
           /\ sent' = IF t.kind = "typingStop" THEN <<TypingSignal(FALSE)>> ELSE <<>>
    /\ UNCHANGED <<pageVars, chatVars, sinceStart, stopSince, sinceSignal, inputVars,
                   typingTimeoutRef, isConnected, user, sinceEdit, histVars>>

\* ------------------------------------------------------- the local input
Alphabet == {"a", " ", "@"}

LastIndexOf(text, c) ==
    IF \E i \in DOMAIN text : text[i] = c
    THEN CHOOSE i \in DOMAIN text : text[i] = c /\ \A j \in (i + 1)..Len(text) : text[j] # c
    ELSE 0

\* mutant of TypingTimersAfterEdit: the pending timer is not cleared first
TypingTimersAfterEdit_NoClear(ts) ==
    IF user # NoUser /\ isConnected THEN ScheduleStop(ts) ELSE ts

\* handleTyping's effect on the timers
TypingTimersAfterEdit(ts) ==
    IF user # NoUser /\ isConnected
    THEN ScheduleStop(ClearTypingTimeout(ts))
    ELSE ClearTypingTimeout(ts)

\* value.slice(lastAtIndex + 1)
AfterLastAt(value) == SubSeq(value, LastIndexOf(value, "@") + 1, Len(value))

\* handleInputChange's setShowMentions: an '@' is there and no space follows it
ShowMentionsAfter(value) ==
    /\ LastIndexOf(value, "@") # 0
    /\ \A i \in DOMAIN AfterLastAt(value) : AfterLastAt(value)[i] # " "

\* handleInputChange's setMentionQuery: set where the popup is shown, else kept
MentionQueryAfter(value, previous) ==
    IF ShowMentionsAfter(value) THEN AfterLastAt(value) ELSE previous

HandleInputChange(value) ==
    /\ mounted
    /\ user # NoUser
    /\ newMessage' = value
    /\ showMentions' = ShowMentionsAfter(value)
    /\ mentionQuery' = MentionQueryAfter(value, mentionQuery)
    /\ IF Len(value) > Len(newMessage) /\ ~Blank(value)
       THEN \* handleTyping
            /\ isConnected => Len(ClearTypingTimeout(timers)) < MaxTimers
            /\ timers' = TypingTimersAfterEdit(timers)
            /\ IF user # NoUser /\ isConnected
               THEN /\ sent' = <<TypingSignal(TRUE)>>
                    /\ typingTimeoutRef' = "set"
                    /\ sinceEdit' = 0
               ELSE /\ sent' = <<>>
                    /\ UNCHANGED <<typingTimeoutRef, sinceEdit>>
       ELSE /\ sent' = <<>>
            /\ UNCHANGED <<timers, typingTimeoutRef, sinceEdit>>
    /\ UNCHANGED <<pageVars, chatVars, typingVars, replyingTo, isConnected, user, mounted,
                   histVars>>

\* handleReply
HandleReply(messageId) ==
    /\ mounted
    /\ messageId \in CachedIds(cache)
    /\ replyingTo' = messageId
    /\ UNCHANGED <<pageVars, chatVars, typingVars, newMessage, showMentions, mentionQuery,
                   localVars, histVars, timers, sent>>

\* handleKeyPress, Escape (Enter is handleSendMessage)
HandleEscape ==
    /\ mounted
    /\ user # NoUser
    /\ replyingTo' = None
    /\ showMentions' = FALSE
    /\ UNCHANGED <<pageVars, chatVars, typingVars, newMessage, mentionQuery, localVars,
                   histVars, timers, sent>>

\* ------------------------------------------------------------- search
\* String.prototype.toLowerCase, character by character
LowerChar_Same(c) == c

LowerChar(c) == IF c = "A" THEN "a" ELSE IF c = "B" THEN "b" ELSE c

ToLowerCase(text) == [i \in DOMAIN text |-> LowerChar(text[i])]

\* String.prototype.includes
Includes(text, q) ==
    \E i \in 0..(Len(text) - Len(q)) : SubSeq(text, i + 1, i + Len(q)) = q

\* x || ""
OrEmpty(x) == IF x = NoData THEN <<>> ELSE Data(x)

\* messages: the cached list, [] while nothing is cached
Messages == IF cache = NoData THEN <<>> ELSE Data(cache)

\* the filter callback of handleSearch
SearchMatch(message, query) ==
    \/ Includes(ToLowerCase(message.message), ToLowerCase(query))
    \/ Includes(ToLowerCase(OrEmpty(message.user.firstName)), ToLowerCase(query))
    \/ Includes(ToLowerCase(OrEmpty(message.user.username)), ToLowerCase(query))

\* handleSearch
HandleSearch(query) ==
    /\ mounted
    /\ searchQuery' = query
    /\ searchResults' = IF ~Blank(query)
                        THEN Filter(Messages, LAMBDA message : SearchMatch(message, query))
                        ELSE <<>>
    /\ sent' = <<>>
    /\ UNCHANGED <<dbVars, profile, participants, joined, lastPresence, chatVars, typingVars, inputVars,
                   localVars, histVars, timers>>

\* ------------------------------------------------- mention suggestions
\* filteredParticipants
FilteredParticipants ==
    Filter(participants, LAMBDA p :
        \/ Includes(ToLowerCase(OrEmpty(p.user.username)), ToLowerCase(mentionQuery))
        \/ Includes(ToLowerCase(OrEmpty(p.user.firstName)), ToLowerCase(mentionQuery)))

\* the popup: showMentions && filteredParticipants.length > 0, then slice(0, 5)
Presented ==
    IF showMentions /\ Len(FilteredParticipants) > 0
    THEN SubSeq(FilteredParticipants, 1,
                IF Len(FilteredParticipants) < 5 THEN Len(FilteredParticipants) ELSE 5)
    ELSE <<>>

\* `${undefined}`
UndefinedText == <<"u", "n", "d", "e", "f", "i", "n", "e", "d">>

\* the popup entry's onClick argument: participant.user.username || participant.user.firstName
ClickedName(p) ==
    IF p.user.username # NoData /\ Data(p.user.username) # <<>> THEN Data(p.user.username)
    ELSE IF p.user.firstName # NoData THEN Data(p.user.firstName)
    ELSE UndefinedText

\* handleMention
HandleMention(username) ==
    /\ mounted
    /\ user # NoUser
    /\ LET lastAtIndex == LastIndexOf(newMessage, "@")
           beforeAt == IF lastAtIndex = 0
                       THEN SubSeq(newMessage, 1, Len(newMessage) - 1)
                       ELSE SubSeq(newMessage, 1, lastAtIndex - 1)
           afterQuery == SubSeq(newMessage, lastAtIndex + Len(mentionQuery) + 1,
                                Len(newMessage))
       IN  newMessage' = beforeAt \o <<"@">> \o username \o <<" ">> \o afterQuery
    /\ showMentions' = FALSE
    /\ sent' = <<>>
    /\ UNCHANGED <<pageVars, chatVars, typingVars, mentionQuery, replyingTo, localVars,
                   histVars, timers>>

\* a click on the i-th entry of the popup
SelectSuggestion(i) ==
    /\ i \in DOMAIN Presented
    /\ HandleMention(ClickedName(Presented[i]))

\* ------------------------------------------------- the presence effect
\* what useAuth can report of the user's names
Profiles == [firstName : {None, "First"}, username : {None, "uname"}]

\* mutant of DisplayName: the username is preferred to the first name
DisplayName_UsernameFirst(p) ==
    IF p.username # None THEN p.username
    ELSE IF p.firstName # None THEN p.firstName
    ELSE "User"

\* user.firstName || user.username || 'User'
DisplayName(p) ==
    IF p.firstName # None THEN p.firstName
    ELSE IF p.username # None THEN p.username
    ELSE "User"

PresenceSignal(type, u) == [type |-> type, userId |-> u, username |-> DisplayName(profile)]

\* the effect's cleanup, with the user it was set up with
Cleanup(oldUser) ==
    IF oldUser # NoUser THEN <<PresenceSignal("challenge_user_leave", oldUser)>> ELSE <<>>

\* the effect's body, with the values of the render it belongs to
Announce(newUser, connected) ==
    IF newUser # NoUser /\ connected
    THEN <<PresenceSignal("challenge_user_join", newUser)>>
    ELSE <<>>

\* the type of the latest presence signal once the given signals have been sent
LastPresenceAfter(signals) ==
    IF signals = <<>> THEN lastPresence ELSE signals[Len(signals)].type

\* a dependency of the effect changed: cleanup of the old effect, then the new one
Rerun(newUser, connected) ==
    /\ mounted
    /\ user' = newUser
    /\ isConnected' = connected
    /\ sent' = Cleanup(user) \o Announce(newUser, connected)
    /\ joined' = (joined \/ Announce(newUser, connected) # <<>>)
    /\ lastPresence' = LastPresenceAfter(Cleanup(user) \o Announce(newUser, connected))
    /\ timers' = ClearTypingTimeout(timers)
    /\ UNCHANGED <<dbVars, profile, participants, searchQuery, searchResults, chatVars,
                   typingVars, inputVars, typingTimeoutRef, mounted, sinceEdit, histVars>>

Connect == ~isConnected /\ Rerun(user, TRUE)

Disconnect == isConnected /\ Rerun(user, FALSE)

ResolveUser == user = NoUser /\ Rerun(ME, isConnected)

Unmount ==
    /\ mounted
    /\ mounted' = FALSE
    /\ sent' = Cleanup(user)
    /\ lastPresence' = LastPresenceAfter(Cleanup(user))
    /\ timers' = ClearTypingTimeout(timers)
    /\ UNCHANGED <<dbVars, profile, participants, searchQuery, searchResults, joined, chatVars, typingVars, inputVars, typingTimeoutRef, isConnected,
                   user, sinceEdit, histVars>>

\* ------------------------------------- initializeDatabase (server/initDb.ts)
\* A migration file is the sequence of the segments between its statement
\* separators.  A segment is blank (white space only) or a statement, and a
\* statement is named after what pool.query does with it: it resolves ("ok") or
\* rejects with code 42P07, with code 42P06, with another code and a message
\* holding "already exists", or with any other error.
SegmentKinds == {"blank", "ok", "42P07", "42P06", "exists", "other"}

\* the files readFileSync can return, and NoData for a file it cannot read
MigrationFiles == {Some(f) : f \in SeqsOver(SegmentKinds, MaxSegments)} \cup {NoData}

\* sql.split('--> statement-breakpoint').filter(s => s.trim()), each statement
\* with its position in the file
SplitStatements(file) ==
    Filter([k \in DOMAIN file |-> [at |-> k, kind |-> file[k]]],
           LAMBDA st : st.kind # "blank")

\* which counter the statement's outcome adds to
Counted(kind) ==
    IF kind = "ok" THEN "success"
    ELSE IF kind \in {"42P07", "42P06"} THEN "skip"
    ELSE IF kind = "exists" THEN "skip"
    ELSE "error"

\* mutant of Continues: an error that is not benign ends the run
Continues_UnlessOther(kind) == kind # "other"

\* every branch of the inner catch falls through to the next iteration
Continues(kind) == TRUE

\* the call, up to the loop: the file is read and split, or reading it throws
\* and the outer catch rethrows
ReadMigration(content) ==
    /\ dbPc = "idle"
    /\ IF content = NoData
       THEN /\ dbPc' = "threw"
            /\ UNCHANGED statements
       ELSE /\ dbPc' = "loop"
            /\ statements' = SplitStatements(Data(content))
    /\ stmtIndex' = 0
    /\ successCount' = 0
    /\ skipCount' = 0
    /\ errorCount' = 0
    /\ UNCHANGED <<executed, profile, participants, searchQuery, searchResults, joined,
                   lastPresence, chatVars, typingVars, inputVars, localVars, histVars,
                   timers, sent>>

\* one iteration of the loop: await pool.query(statement) and its catch
ExecuteStatement ==
    /\ dbPc = "loop"
    /\ stmtIndex < Len(statements)
    /\ LET statement == statements[stmtIndex + 1]
       IN  /\ executed' = Append(executed, statement.at)
           /\ successCount' = successCount + (IF Counted(statement.kind) = "success" THEN 1 ELSE 0)
           /\ skipCount' = skipCount + (IF Counted(statement.kind) = "skip" THEN 1 ELSE 0)
           /\ errorCount' = errorCount + (IF Counted(statement.kind) = "error" THEN 1 ELSE 0)
           /\ dbPc' = IF Continues(statement.kind) THEN "loop" ELSE "threw"
    /\ stmtIndex' = stmtIndex + 1
    /\ UNCHANGED <<statements, profile, participants, searchQuery, searchResults, joined,
                   lastPresence, chatVars, typingVars, inputVars, localVars, histVars,
                   timers, sent>>

\* the loop is over: return true
ReturnTrue ==
    /\ dbPc = "loop"
    /\ stmtIndex = Len(statements)
    /\ dbPc' = "returned"
    /\ UNCHANGED <<statements, stmtIndex, successCount, skipCount, errorCount, executed,
                   profile, participants, searchQuery, searchResults, joined,
                   lastPresence, chatVars, typingVars, inputVars, localVars, histVars,
                   timers, sent>>

\* ------------------------------------------------------ specifications
\* what the store holds when the page is opened
StoreInits ==
    {<<>>,
     <<[id |-> 1, userId |-> "u2", message |-> <<"a">>,
        reactions |-> <<[emoji |-> "e1", users |-> {"u2"}]>>]>>}

\* the signed-in user's names and the participants query's default
InitPage ==
    /\ profile = [firstName |-> "First", username |-> "uname"]
    /\ participants = <<>>

\* the page after its first render: nothing cached, the list query in flight,
\* the socket not yet connected
Init ==
    /\ store \in StoreInits
    /\ cache = NoData
    /\ fetch = [st |-> "sent", resp |-> <<>>]
    /\ user \in {NoUser, ME}
    /\ lastCache = NoData
    /\ prevCache = NoData
    /\ InitRest
    /\ InitPage

Strings(n) == SeqsOver(Alphabet, n)

Next ==
    \/ FetchServe \/ FetchResolve \/ FetchFail
    \/ \E value \in Strings(MaxLen) : HandleInputChange(value)
    \/ HandleSendMessage
    \/ CreateServe({"unauthorized", "other"}) \/ CreateSuccess \/ CreateError
    \/ \E messageId \in (0 - MaxSends)..MaxMsgs, emoji \in Emojis : HandleReaction(messageId, emoji)
    \/ ReactServe \/ ReactSuccess \/ ReactError
    \/ OtherPost \/ OtherReact \/ ChannelEvent
    \/ \E data \in WsMessages : OnMessage(data)
    \/ \E messageId \in (0 - MaxSends)..MaxMsgs : HandleReply(messageId)
    \/ HandleEscape
    \/ Connect \/ Disconnect \/ ResolveUser \/ Unmount
    \/ Tick \/ TimerFire

Spec == Init /\ [][Next]_vars

\* ---- the message list under sends: send, create, re-fetch, other users' posts
InitSend == Init /\ user = ME

NextSend ==
    \/ FetchServe \/ FetchResolve \/ FetchFail
    \/ HandleInputChange(<<"a">>)
    \/ HandleSendMessage
    \/ CreateServe({"other"}) \/ CreateSuccess \/ CreateError
    \/ OtherPost \/ ChannelEvent

SpecSend == InitSend /\ [][NextSend]_vars

\* ---- the message list under reaction toggles, the viewer's and the others'
InitReact == Init /\ user = ME

NextReact ==
    \/ FetchServe \/ FetchResolve \/ FetchFail
    \/ \E messageId \in 1..MaxMsgs, emoji \in Emojis : HandleReaction(messageId, emoji)
    \/ ReactServe \/ ReactSuccess \/ ReactError
    \/ OtherReact \/ ChannelEvent

SpecReact == InitReact /\ [][NextReact]_vars

\* ---- the typing indicator: the second transport's messages and the timers
InitTyping == Init /\ user = ME /\ store = <<>>

NextTyping ==
    \/ \E data \in WsMessages : OnMessage(data)
    \/ Tick \/ TimerFire

SpecTyping == InitTyping /\ [][NextTyping]_vars

\* ---- the local input: typing debounce, send, connection and presence
InitLocal == Init /\ store = <<>>

NextLocal ==
    \/ \E value \in Strings(MaxLen) : HandleInputChange(value)
    \/ HandleSendMessage
    \/ HandleEscape
    \/ Connect \/ Disconnect \/ ResolveUser \/ Unmount
    \/ Tick \/ TimerFire

SpecLocal == InitLocal /\ [][NextLocal]_vars

\* ---- mention extraction: a text has been typed into the fresh page, and is sent
MentionTexts == SeqsOver({"a", "b", "@", " "}, MaxText)

InitMentions ==
    /\ store = <<>>
    /\ cache = NoData
    /\ fetch = [st |-> "sent", resp |-> <<>>]
    /\ user = ME
    /\ lastCache = NoData
    /\ prevCache = NoData
    /\ creates = <<>>
    /\ reacts = <<>>
    /\ sendSeq = 0
    /\ typingUsers = <<>>
    /\ timers = <<>>
    /\ typingTimeoutRef = "unset"
    /\ \E value \in MentionTexts :
            /\ newMessage = value
            /\ showMentions = ShowMentionsAfter(value)
            /\ mentionQuery = MentionQueryAfter(value, <<>>)
    /\ replyingTo = None
    /\ isConnected = FALSE
    /\ mounted = TRUE
    /\ notice = NoNotice
    /\ sent = <<>>
    /\ lastOp = NoOp
    /\ prevOp = NoOp
    /\ sinceStart = [u \in AllUsers |-> TYPING_TTL + 1]
    /\ stopSince = [u \in AllUsers |-> FALSE]
    /\ sinceSignal = TYPING_TTL + 1
    /\ sinceEdit = TYPING_STOP_DELAY + 1
    /\ searchQuery = <<>>
    /\ searchResults = <<>>
    /\ joined = FALSE
    /\ lastPresence = None
    /\ dbPc = "idle"
    /\ statements = <<>>
    /\ stmtIndex = 0
    /\ successCount = 0
    /\ skipCount = 0
    /\ errorCount = 0
    /\ executed = <<>>
    /\ InitPage

NextMentions == HandleSendMessage

SpecMentions == InitMentions /\ [][NextMentions]_vars

\* ---- search: a list is loaded, queries are typed into the search field
SearchTexts(n) == SeqsOver({"a", "A", " "}, n)

\* a name is absent (NoData), or a text
SearchNames == {NoData} \cup {Some(t) : t \in {<<"A">>, <<"a", "a">>}}

LoadedMessages(id) ==
    {[id |-> id, userId |-> "u2", message |-> body,
      user |-> [firstName |-> f, username |-> u]] :
        body \in SearchTexts(2) \ {<<>>}, f \in SearchNames, u \in SearchNames}

RECURSIVE LoadedLists(_)
LoadedLists(n) ==
    IF n = 0 THEN {<<>>}
    ELSE {Append(l, m) : l \in LoadedLists(n - 1), m \in LoadedMessages(n)}

InitSearch ==
    /\ cache \in {NoData} \cup {Some(l) : l \in UNION {LoadedLists(n) : n \in 0..MaxListed}}
    /\ store = <<>>
    /\ fetch = FetchIdle
    /\ user = ME
    /\ lastCache = NoData
    /\ prevCache = NoData
    /\ InitRest
    /\ InitPage

NextSearch == \E query \in SearchTexts(MaxQuery) : HandleSearch(query)

SpecSearch == InitSearch /\ [][NextSearch]_vars

\* ---- mention suggestions: the participants are loaded, the user types and
\* picks from the popup
\* a participant with both names, with a first name only, with neither
ParticipantKinds ==
    {[user |-> [username |-> Some(<<"a">>), firstName |-> Some(<<"A", "b">>)]],
     [user |-> [username |-> NoData, firstName |-> Some(<<"A", "b">>)]],
     [user |-> [username |-> NoData, firstName |-> NoData]]}

InitSuggest ==
    /\ store = <<>>
    /\ cache = NoData
    /\ fetch = [st |-> "sent", resp |-> <<>>]
    /\ user = ME
    /\ lastCache = NoData
    /\ prevCache = NoData
    /\ InitRest
    /\ profile = [firstName |-> "First", username |-> "uname"]
    /\ participants \in SeqsOver(ParticipantKinds, MaxParticipants)

NextSuggest ==
    \/ \E value \in Strings(MaxLen) : HandleInputChange(value)
    \/ \E i \in 1..MaxParticipants : SelectSuggestion(i)
    \/ HandleEscape

SpecSuggest == InitSuggest /\ [][NextSuggest]_vars

\* ---- failed sends: both classes of failure, the notice and the redirect timer
InitFail == Init /\ user = ME /\ store = <<>>

NextFail ==
    \/ FetchServe \/ FetchResolve \/ FetchFail
    \/ HandleInputChange(<<"a">>)
    \/ HandleSendMessage
    \/ CreateServe({"unauthorized", "other"}) \/ CreateSuccess \/ CreateError
    \/ Tick \/ TimerFire

SpecFail == InitFail /\ [][NextFail]_vars

\* ---- sends and reaction toggles together, each with its failures, and the
\* list query; no other user acts
InitSettle == Init /\ user = ME

NextSettle ==
    \/ FetchServe \/ FetchResolve \/ FetchFail
    \/ HandleInputChange(<<"a">>)
    \/ HandleSendMessage
    \/ CreateServe({"other"}) \/ CreateSuccess \/ CreateError
    \/ \E messageId \in (0 - MaxSends)..MaxMsgs, emoji \in Emojis : HandleReaction(messageId, emoji)
    \/ ReactServe \/ ReactSuccess \/ ReactError

SpecSettle == InitSettle /\ [][NextSettle]_vars

\* ---- convergence: sends and reaction toggles with their failures, every
\* list request that comes back to idle having been answered with the list; no
\* other user acts, so the channel has nothing to deliver
InitConverge == Init /\ user = ME

NextConverge ==
    \/ FetchServe \/ FetchResolve
    \/ HandleInputChange(<<"a">>)
    \/ HandleSendMessage
    \/ CreateServe({"other"}) \/ CreateSuccess \/ CreateError
    \/ \E messageId \in (0 - MaxSends)..MaxMsgs, emoji \in Emojis : HandleReaction(messageId, emoji)
    \/ ReactServe \/ ReactSuccess \/ ReactError

SpecConverge == InitConverge /\ [][NextConverge]_vars

\* ---- teardown: remote typing signals, local edits, the connection and the
\* timers they leave pending when the page is closed
InitTeardown == Init /\ user = ME /\ store = <<>>

\* the typing signals of the remote users in this room
RemoteTyping ==
    {data \in WsMessages :
        /\ data.type = "user_typing"
        /\ data.challengeId = ROOM
        /\ data.userId \in RemoteUsers
        /\ data.username = "name"}

NextTeardown ==
    \/ \E data \in RemoteTyping : OnMessage(data)
    \/ \E value \in {<<>>, <<"a">>} : HandleInputChange(value)
    \/ Connect \/ Disconnect \/ Unmount
    \/ Tick \/ TimerFire

SpecTeardown == InitTeardown /\ [][NextTeardown]_vars

\* ---- initializeDatabase, called once with any migration file
InitDb == Init /\ user = NoUser /\ store = <<>>

NextDb ==
    \/ \E content \in MigrationFiles : ReadMigration(content)
    \/ ExecuteStatement
    \/ ReturnTrue

SpecDb == InitDb /\ [][NextDb]_vars

\* ---- the local typing signals under edits, sends, connection changes and
\* teardown; time passes and a due timer's callback runs (the event loop
\* does not starve a timer)
InitStop == Init /\ user = ME /\ store = <<>>

NextStop ==
    \/ \E value \in {<<>>, <<"a">>} : HandleInputChange(value)
    \/ HandleSendMessage
    \/ Connect \/ Disconnect \/ Unmount
    \/ Tick \/ TimerFire

SpecStop == InitStop /\ [][NextStop]_vars /\ WF_vars(Tick) /\ WF_vars(TimerFire)

\* ---- the second transport's messages of every type, room and sender, with
\* the list query answered in between and the typing timers running
InitFilter == Init /\ user = ME /\ store = <<>>

\* the typing signals of one remote user, of the signed-in user and of nobody,
\* and the other messages, which the handler tells apart by type and room only
NamedMessages ==
    {data \in WsMessages :
        /\ data.username = "name"
        /\ data.userId \in {"A", ME, None}
        /\ data.type # "user_typing" => (data.userId = "A" /\ ~data.isTyping)}

NextFilter ==
    \/ FetchServe \/ FetchResolve \/ FetchFail
    \/ \E data \in NamedMessages : OnMessage(data)
    \/ Tick \/ TimerFire

SpecFilter == InitFilter /\ [][NextFilter]_vars

\* ---- presence: connection changes, user resolution, teardown, with edits
\* and their timers in between
InitPresence ==
    /\ store = <<>>
    /\ cache = NoData
    /\ fetch = [st |-> "sent", resp |-> <<>>]
    /\ user \in {NoUser, ME}
    /\ lastCache = NoData
    /\ prevCache = NoData
    /\ InitRest
    /\ profile \in Profiles
    /\ participants = <<>>

NextPresence ==
    \/ Connect \/ Disconnect \/ ResolveUser \/ Unmount
    \/ \E value \in Strings(MaxLen) : HandleInputChange(value)
    \/ Tick \/ TimerFire

SpecPresence == InitPresence /\ [][NextPresence]_vars

\* ---- realtime ingestion: both transports, the list query, other users' posts
InitIngest == Init /\ user = ME

\* the messages of the second transport other than typing signals; the
\* branches that handle them read the type and the room only
IngestMessages ==
    {data \in WsMessages :
        data.type # "user_typing" /\ data.userId = "A" /\ ~data.isTyping /\ data.username = None}

NextIngest ==
    \/ FetchServe \/ FetchResolve \/ FetchFail
    \/ OtherPost \/ OtherReact
    \/ \E kind \in ChannelKinds : ChannelDeliver(kind)
    \/ \E data \in IngestMessages : OnMessage(data)

SpecIngest == InitIngest /\ [][NextIngest]_vars

\* ------------------------------------- the optimistic transform on its own
\* Inputs: every cached value the list endpoint can have produced (or nothing
\* cached), every message id (one of them not in the list) and every emoji.
InitToggle ==
    /\ cache \in {NoData} \cup {Some(l) : l \in UNION {ListedLists(n) : n \in 1..MaxMsgs}}
    /\ store = <<>>
    /\ fetch = [st |-> "idle", resp |-> <<>>]
    /\ user = ME
    /\ lastCache = cache
    /\ prevCache = cache
    /\ InitRest
    /\ InitPage

ApplyToggle(messageId, emoji) ==
    /\ cache' = OptimisticToggle(cache, messageId, emoji)
    /\ Record("toggle", messageId, emoji)
    /\ UNCHANGED <<pageVars, store, fetch, creates, reacts, sendSeq, notice, typingVars,
                   inputVars, localVars, timers, sent>>

NextToggle == \E messageId \in 1..(MaxMsgs + 1), emoji \in Emojis : ApplyToggle(messageId, emoji)

SpecToggle == InitToggle /\ [][NextToggle]_vars

\* ------------------------------------------ reading a cached list (claims)
HasEmoji(rs, e) == \E k \in DOMAIN rs : rs[k].emoji = e

EntriesOf(rs, e) == {k \in DOMAIN rs : rs[k].emoji = e}

\* positions of the message the last toggle was aimed at, in the value cached before it
Targets(before) ==
    IF before = NoData THEN {}
    ELSE {i \in DOMAIN Data(before) : Data(before)[i].id = lastOp.messageId}

\* C2: the optimistic transform of a toggle of emoji e on message m: e absent
\* on m gives one new entry with count 1 marked reacted; e present and not
\* reacted gives count + 1 marked reacted; e present and reacted gives count - 1
\* with the flag cleared, or no entry at all when the count was 1.
C2_ToggleTransform ==
    lastOp.op = "toggle" =>
        \A i \in Targets(lastCache) :
            LET before == Reactions(Data(lastCache)[i])
                after == Reactions(Data(cache)[i])
                e == lastOp.emoji
            IN  IF ~HasEmoji(before, e)
                THEN \E k \in DOMAIN after :
                        /\ EntriesOf(after, e) = {k}
                        /\ after[k].count = 1
                        /\ after[k].userReacted
                ELSE \A j \in EntriesOf(before, e) :
                        IF ~before[j].userReacted
                        THEN /\ j \in EntriesOf(after, e)
                             /\ after[j].count = before[j].count + 1
                             /\ after[j].userReacted
                        ELSE IF before[j].count - 1 = 0
                        THEN ~HasEmoji(after, e)
                        ELSE /\ j \in EntriesOf(after, e)
                             /\ after[j].count = before[j].count - 1
                             /\ ~after[j].userReacted

\* a toggle took a reacted entry from count 2 to count 1
C2_Witness ==
    /\ lastOp.op = "toggle"
    /\ \E i \in Targets(lastCache) :
        \E j \in EntriesOf(Reactions(Data(lastCache)[i]), lastOp.emoji) :
            /\ Reactions(Data(lastCache)[i])[j].userReacted
            /\ Reactions(Data(lastCache)[i])[j].count = 2
            /\ Reactions(Data(cache)[i])[j].count = 1

\* C4: two toggles in a row of the same emoji on the same message, the emoji
\* absent on it at first, leave the message's reaction list as it was.
C4_ToggleTwiceRestores ==
    (lastOp.op = "toggle" /\ prevOp = lastOp /\ prevCache # NoData) =>
        \A i \in Targets(prevCache) :
            ~HasEmoji(Reactions(Data(prevCache)[i]), lastOp.emoji) =>
                Reactions(Data(cache)[i]) = Reactions(Data(prevCache)[i])

\* two such toggles were applied to a message that carries another reaction
C4_Witness ==
    /\ lastOp.op = "toggle"
    /\ prevOp = lastOp
    /\ \E i \in Targets(prevCache) :
        /\ ~HasEmoji(Reactions(Data(prevCache)[i]), lastOp.emoji)
        /\ Reactions(Data(prevCache)[i]) # <<>>
        /\ HasEmoji(Reactions(Data(lastCache)[i]), lastOp.emoji)

\* C5: a toggle of an entry with count 1 that the viewer reacted to removes
\* the entry, and every entry present in the cached list has count >= 1.
C5_CountOneRemoved ==
    /\ lastOp.op = "toggle" =>
        \A i \in Targets(lastCache) :
            \A j \in EntriesOf(Reactions(Data(lastCache)[i]), lastOp.emoji) :
                (Reactions(Data(lastCache)[i])[j].count = 1
                    /\ Reactions(Data(lastCache)[i])[j].userReacted)
                => ~HasEmoji(Reactions(Data(cache)[i]), lastOp.emoji)
    /\ cache # NoData =>
        \A i \in DOMAIN Data(cache) :
            \A k \in DOMAIN Reactions(Data(cache)[i]) :
                Reactions(Data(cache)[i])[k].count >= 1

\* a toggle removed an entry of count 1 and left another entry in place
C5_Witness ==
    /\ lastOp.op = "toggle"
    /\ \E i \in Targets(lastCache) :
        /\ \E j \in EntriesOf(Reactions(Data(lastCache)[i]), lastOp.emoji) :
            /\ Reactions(Data(lastCache)[i])[j].count = 1
            /\ Reactions(Data(lastCache)[i])[j].userReacted
        /\ Len(Reactions(Data(cache)[i])) = 1

\* ------------------------------------------------------- send (claims)
OldList == IF cache = NoData THEN <<>> ELSE Data(cache)

\* the viewer's stored messages whose create request has been acknowledged
Acknowledged ==
    {i \in DOMAIN store :
        store[i].userId = ME /\ \A k \in DOMAIN creates : creates[k].id # store[i].id}

SendStep == sendSeq' # sendSeq

CreateSuccessStep ==
    \E k \in DOMAIN creates : creates[k].st = "ok" /\ creates' = RemoveAt(creates, k)

FetchResolveStep == fetch.st = "answered" /\ fetch'.st = "idle" /\ reacts' = reacts

\* C1: a send appends a provisional message (temporary id, no reactions) at
\* the end of the cached list in the step that issues the create request, the
\* request still unanswered; a successful create starts a re-fetch; and when a
\* re-fetch resolves the cached list is a list of the store, holding every
\* acknowledged message of the viewer and no provisional entry.
C1_SendThenReconcile ==
    [][ /\ SendStep =>
            /\ cache' # NoData
            /\ Len(Data(cache')) = Len(OldList) + 1
            /\ SubSeq(Data(cache'), 1, Len(OldList)) = OldList
            /\ IsTemp(Data(cache')[Len(Data(cache'))].id)
            /\ Data(cache')[Len(Data(cache'))].reactions = <<>>
            /\ Len(creates') = Len(creates) + 1
            /\ creates'[Len(creates')].st = "sent"
            /\ creates'[Len(creates')].provisionalCached
        /\ CreateSuccessStep => fetch'.st = "sent"
        /\ FetchResolveStep =>
            /\ cache' # NoData
            /\ \A i \in DOMAIN Data(cache') : ~IsTemp(Data(cache')[i].id)
            /\ Len(Data(cache')) <= Len(store)
            /\ Data(cache') = ListMessages(SubSeq(store, 1, Len(Data(cache'))))
            /\ \A i \in Acknowledged : i \in DOMAIN Data(cache')
      ]_vars

\* a sent message has been stored, acknowledged and re-fetched: it is cached
\* under its own id and nothing provisional is left
C1_Witness ==
    /\ sendSeq > 0
    /\ creates = <<>>
    /\ fetch.st = "idle"
    /\ cache # NoData
    /\ \E i \in DOMAIN Data(cache) : Data(cache)[i].userId = ME
    /\ \A i \in DOMAIN Data(cache) : ~IsTemp(Data(cache)[i].id)

\* ------------------------------------------------- toggle failure (claims)
ToggleStep == Len(reacts') = Len(reacts) + 1

ReactErrorStep(k) == reacts[k].st = "failed" /\ reacts' = RemoveAt(reacts, k)

\* C3: the context of a toggle holds the value cached before its optimistic
\* transform, and when the toggle request fails the cached value is that
\* snapshot again.
C3_FailureRestoresSnapshot ==
    [][ /\ ToggleStep => reacts'[Len(reacts')].previousMessages = cache
        /\ \A k \in DOMAIN reacts : ReactErrorStep(k) => cache' = reacts[k].previousMessages
      ]_vars

\* a failed toggle has just been rolled back: the viewer's optimistic entry is
\* gone although the store never saw the toggle
C3_Witness ==
    /\ lastOp.op = "reactFailed"
    /\ reacts = <<>>
    /\ fetch.st = "sent"
    /\ cache # NoData
    /\ \A i \in DOMAIN Data(cache) :
        \A k \in DOMAIN Reactions(Data(cache)[i]) : ~Reactions(Data(cache)[i])[k].userReacted

\* --------------------------------------------- typing indicator (claims)
Shown(u) == \E i \in DOMAIN typingUsers : typingUsers[i].userId = u

ShownNext(u) == \E i \in DOMAIN typingUsers' : typingUsers'[i].userId = u

\* a typing-start of another user in the current room
IsTypingStart(data) ==
    /\ data.type = "user_typing"
    /\ data.challengeId = ROOM
    /\ data.userId \in RemoteUsers
    /\ data.isTyping

\* C6: a typing-start of U puts U in the typing set, and U is in the set no
\* longer than 5 seconds after U's latest typing-start: once the timers due at
\* that moment have run, U is gone.
C6_TypingExpires ==
    /\ [][\A data \in WsMessages :
            (IsTypingStart(data) /\ OnMessage(data)) => ShownNext(data.userId)]_vars
    /\ [](\A u \in RemoteUsers :
            /\ Shown(u) => sinceStart[u] <= TYPING_TTL
            /\ (sinceStart[u] >= TYPING_TTL /\ Due(timers) = {}) => ~Shown(u))

\* U was shown for the full 5 seconds and has just been removed by the timer
C6_Witness ==
    \E u \in RemoteUsers :
        /\ sinceStart[u] = TYPING_TTL
        /\ ~stopSince[u]
        /\ Due(timers) = {}
        /\ ~Shown(u)

\* C7: a user stays in the typing set until 5 seconds after the most recent
\* typing-start (an earlier start's timer having been cancelled), unless a
\* typing-stop arrived.
C7_StaysUntilLatestExpiry ==
    \A u \in RemoteUsers : (sinceStart[u] < TYPING_TTL /\ ~stopSince[u]) => Shown(u)

\* C8: when B's typing-start arrives less than 5 seconds after A's latest
\* typing-start (A not having stopped), the indicator then shows both; and once
\* 5 seconds have passed without a typing signal the indicator is empty.
C8_BothShownThenEmpty ==
    /\ [][\A data \in WsMessages : \A a \in RemoteUsers \ {data.userId} :
            (/\ IsTypingStart(data)
             /\ OnMessage(data)
             /\ sinceStart[a] < TYPING_TTL
             /\ ~stopSince[a])
            => (ShownNext(a) /\ ShownNext(data.userId))]_vars
    /\ []((sinceSignal >= TYPING_TTL /\ Due(timers) = {}) => typingUsers = <<>>)

\* ------------------------------------------------ local typing (claims)
StopTimers(ts) == {i \in DOMAIN ts : ts[i].kind = "typingStop"}

\* handleInputChange with a value that grows the body and is not blank
QualifyingEdit ==
    \E value \in Strings(MaxLen) :
        /\ HandleInputChange(value)
        /\ Len(value) > Len(newMessage)
        /\ ~Blank(value)

TimerStopStep == TimerFire /\ sent' = <<TypingSignal(FALSE)>>

\* C9 as stated: every qualifying edit sends a typing-start at once and leaves
\* exactly one typing-stop timer pending, due in 3 seconds.
C9_EveryEditAnnounces ==
    [][QualifyingEdit =>
        /\ sent' = <<TypingSignal(TRUE)>>
        /\ \E i \in DOMAIN timers' :
            StopTimers(timers') = {i} /\ timers'[i].left = TYPING_STOP_DELAY]_vars

\* C9 as amended: while connected, a qualifying edit sends a typing-start at
\* once, cancels the pending typing-stop timer and schedules one due in 3
\* seconds; while not connected it only cancels the pending timer.  At most one
\* typing-stop timer is pending, it is due 3 seconds after the last announcing
\* edit, and a timer-driven typing-stop is sent exactly then.
C9_ConnectedEditAnnounces ==
    /\ [][QualifyingEdit =>
            IF isConnected
            THEN /\ sent' = <<TypingSignal(TRUE)>>
                 /\ \E i \in DOMAIN timers' :
                        StopTimers(timers') = {i} /\ timers'[i].left = TYPING_STOP_DELAY
            ELSE /\ sent' = <<>>
                 /\ StopTimers(timers') = {}]_vars
    /\ [][TimerStopStep => (sinceEdit = TYPING_STOP_DELAY /\ StopTimers(timers') = {})]_vars
    /\ [](/\ Cardinality(StopTimers(timers)) <= 1
          /\ \A i \in StopTimers(timers) : timers[i].left = TYPING_STOP_DELAY - sinceEdit)

\* a burst of two announcing edits one second apart, its one timer still
\* pending two seconds after the second edit
C9_Witness ==
    /\ isConnected
    /\ sinceEdit = 2
    /\ Len(newMessage) = 2
    /\ \E i \in DOMAIN timers : StopTimers(timers) = {i} /\ timers[i].left = 1

\* C10 as stated: a send leaves no typing-stop timer pending and sends a
\* typing-stop in the step that issues the create request.
C10_SendStopsTyping ==
    [][SendStep =>
        /\ StopTimers(timers') = {}
        /\ sent' = <<TypingSignal(FALSE)>>
        /\ creates'[Len(creates')].st = "sent"]_vars

\* C10 as amended: a send leaves no typing-stop timer pending and, when the
\* channel is connected, sends a typing-stop in the step that issues the create
\* request (nothing when it is not connected); a typing-stop timer appears only
\* with a later edit, so none from before the send fires after it.
C10_SendStopsTypingIfConnected ==
    [][ /\ SendStep =>
            /\ StopTimers(timers') = {}
            /\ sent' = IF isConnected THEN <<TypingSignal(FALSE)>> ELSE <<>>
            /\ creates'[Len(creates')].st = "sent"
        /\ StopTimers(timers') # {} /\ StopTimers(timers) = {} => QualifyingEdit
      ]_vars

\* a send went out while a typing-stop timer was pending: the timer is gone
\* and the typing-stop was sent with the request still unanswered
C10_Witness ==
    /\ sendSeq > 0
    /\ isConnected
    /\ sinceEdit < TYPING_STOP_DELAY
    /\ typingTimeoutRef = "set"
    /\ StopTimers(timers) = {}
    /\ sent = <<TypingSignal(FALSE)>>
    /\ newMessage = <<>>
    /\ creates # <<>>

\* ------------------------------------------- realtime ingestion (claims)
\* the step leaves a list request in flight and the cached value as it was
RefetchOnly == fetch'.st = "sent" /\ cache' = cache

\* C11 as stated: a new-message, reaction-update or system-message event on
\* the per-room channel, and a chat-message, reaction or system message for
\* the room on the second transport, each start a re-fetch of the list and
\* leave the cached list untouched.
C11_EveryContentEventRefetches ==
    [][ /\ \A kind \in {"new-message", "reaction-update", "system-message"} :
            ChannelDeliver(kind) => RefetchOnly
        /\ \A data \in IngestMessages :
            (/\ data.challengeId = ROOM
             /\ data.type \in {"challenge_message", "message_reaction", "system_message"}
             /\ OnMessage(data)) => RefetchOnly ]_vars

\* C11 as amended: on the per-room channel the new-message and the
\* reaction-update event, and on the second transport a chat-message, reaction
\* or system message for the room, each start a re-fetch of the list and leave
\* the cached list untouched; no other event touches the list request or the
\* cached list.
C11_BoundEventsRefetch ==
    [][ /\ \A kind \in ChannelKinds :
            ChannelDeliver(kind) =>
                IF kind \in {"new-message", "reaction-update"}
                THEN RefetchOnly
                ELSE fetch' = fetch /\ cache' = cache
        /\ \A data \in IngestMessages :
            OnMessage(data) =>
                IF data.challengeId = ROOM
                   /\ data.type \in {"challenge_message", "message_reaction", "system_message"}
                THEN RefetchOnly
                ELSE fetch' = fetch /\ cache' = cache ]_vars

\* a list is cached, another user has posted since, and a new-message event
\* has put a request in flight
C11_Witness ==
    /\ lastOp = [op |-> "channel", kind |-> "new-message"]
    /\ fetch.st = "sent"
    /\ cache # NoData
    /\ Len(store) > Len(Data(cache))

\* --------------------------------------------------------- presence (claims)
\* the display name the signals are to carry: first name, else username, else "User"
ExpectedName ==
    IF profile.firstName # None THEN profile.firstName
    ELSE IF profile.username # None THEN profile.username
    ELSE "User"

JoinOf(u) == [type |-> "challenge_user_join", userId |-> u, username |-> ExpectedName]

LeaveOf(u) == [type |-> "challenge_user_leave", userId |-> u, username |-> ExpectedName]

JoinSentNext == \E i \in DOMAIN sent' : sent'[i].type = "challenge_user_join"

\* C12 as stated: a join signal is sent at most once while the page is open,
\* it is sent when the user is resolved and the channel connected, and
\* teardown sends a leave signal; both name the user and the display name.
C12_JoinOnce ==
    [][ /\ ((Connect \/ ResolveUser) /\ JoinSentNext) => ~joined
        /\ ((Connect \/ ResolveUser) /\ user' # NoUser /\ isConnected') =>
                \E i \in DOMAIN sent' : sent'[i] = JoinOf(ME)
        /\ Unmount => (user # NoUser => sent' = <<LeaveOf(ME)>>) ]_vars

\* C12 as amended: each run of the presence effect with the user resolved and
\* the channel connected (the first connection, every reconnection, the user
\* resolving while connected) sends one join signal; the cleanup that precedes
\* each run, and teardown, send a leave signal when the user was resolved;
\* both name the user and the display name.
C12_JoinPerConnection ==
    [][ /\ (Connect \/ Disconnect \/ ResolveUser) =>
            sent' = (IF user # NoUser THEN <<LeaveOf(ME)>> ELSE <<>>)
                    \o (IF user' # NoUser /\ isConnected' THEN <<JoinOf(ME)>> ELSE <<>>)
        /\ Unmount => sent' = (IF user # NoUser THEN <<LeaveOf(ME)>> ELSE <<>>)
        /\ (sent' # sent /\ JoinSentNext) => (Connect \/ ResolveUser) ]_vars

\* the page was torn down after a join: the leave signal carries the
\* username, the user having no first name
C12_Witness ==
    /\ ~mounted
    /\ joined
    /\ profile = [firstName |-> None, username |-> "uname"]
    /\ sent = <<[type |-> "challenge_user_leave", userId |-> ME, username |-> "uname"]>>

\* ------------------------------------------------------ failed sends (claims)
RedirectTimers(ts) == {i \in DOMAIN ts : ts[i].kind = "redirect"}

\* onError ran for the failed create request k
CreateErrorStep(k) == creates[k].st = "failed" /\ creates' = RemoveAt(creates, k)

\* C13: a create failure classified as unauthorized shows the "Unauthorized"
\* notice, not the generic one, and schedules one redirect to the login route
\* after the fixed delay; any other failure shows the generic "Error" notice
\* with the error's message and schedules nothing.
C13_SendFailureNotice ==
    [][\A k \in DOMAIN creates :
        CreateErrorStep(k) =>
            IF creates[k].error = "unauthorized"
            THEN /\ notice'.title = "Unauthorized"
                 /\ Len(timers') = Len(timers) + 1
                 /\ SubSeq(timers', 1, Len(timers)) = timers
                 /\ timers'[Len(timers')].kind = "redirect"
                 /\ timers'[Len(timers')].left = 1
            ELSE /\ notice' = [title |-> "Error", description |-> creates[k].error]
                 /\ timers' = timers]_vars

\* an unauthorized failure was handled: its notice is up and the redirect is
\* pending, the provisional message still cached
C13_Witness ==
    /\ notice.title = "Unauthorized"
    /\ RedirectTimers(timers) # {}
    /\ creates = <<>>

\* ------------------------------------------------ mention extraction (claims)
\* the positions of the '@'s that a word character follows
MentionStarts(text) ==
    {j \in 1..(Len(text) - 1) :
        text[j] = "@" /\ text[j + 1] \in {"a", "b", "A", "B", "_"}}

\* the n-th such position from the left
NthStart(text, n) ==
    CHOOSE j \in MentionStarts(text) :
        Cardinality({i \in MentionStarts(text) : i <= j}) = n

\* s is the maximal run of word characters right after position j
IsRunAfter(text, j, s) ==
    /\ Len(s) >= 1
    /\ j + Len(s) <= Len(text)
    /\ \A m \in 1..Len(s) : s[m] = text[j + m] /\ s[m] \in {"a", "b", "A", "B", "_"}
    /\ j + Len(s) = Len(text) \/ text[j + Len(s) + 1] \notin {"a", "b", "A", "B", "_"}

\* C14: the mentions sent with a message are the maximal runs of word
\* characters right after an '@', one entry per occurrence, in the order of
\* the text, duplicates kept.
C14_MentionsExtracted ==
    \A k \in DOMAIN creates :
        LET text == creates[k].message
            mentions == creates[k].mentions
        IN  /\ Len(mentions) = Cardinality(MentionStarts(text))
            /\ \A n \in DOMAIN mentions : IsRunAfter(text, NthStart(text, n), mentions[n])

\* a message naming b, a, b in this order was sent
C14_Witness ==
    \E k \in DOMAIN creates :
        /\ creates[k].message = <<"@", "b", "@", "a", "@", "b">>
        /\ creates[k].mentions = << <<"b">>, <<"a">>, <<"b">> >>

\* ------------------------------------------------------------ search (claims)
\* the same letter, whatever the case
SameLetter(c, d) ==
    \/ c = d
    \/ {c, d} = {"a", "A"}
    \/ {c, d} = {"b", "B"}

\* q occurs in text, case ignored (an absent text has no occurrence but of the
\* empty q)
OccursIn(text, q) ==
    \E i \in 0..(Len(text) - Len(q)) : \A m \in 1..Len(q) : SameLetter(text[i + m], q[m])

NameText(x) == IF x = <<>> THEN <<>> ELSE x[1]

Matching(message) ==
    \/ OccursIn(message.message, searchQuery)
    \/ OccursIn(NameText(message.user.firstName), searchQuery)
    \/ OccursIn(NameText(message.user.username), searchQuery)

LoadedList == IF cache = NoData THEN <<>> ELSE cache[1]

\* C15 as stated: for a non-empty query the results are the loaded messages
\* whose body, author first name or author username contains the query, case
\* ignored, in list order; for the empty query there are none.
C15_SearchNonEmpty ==
    searchResults = IF searchQuery # <<>> THEN SelectSeq(LoadedList, Matching) ELSE <<>>

\* C15 as amended: for a query that is not only whitespace the results are
\* the loaded messages whose body, author first name or author username
\* contains the query as typed, case ignored, in list order; for an empty or
\* all-whitespace query there are none.
C15_SearchNonBlank ==
    searchResults =
        IF \E i \in DOMAIN searchQuery : searchQuery[i] # " "
        THEN SelectSeq(LoadedList, Matching)
        ELSE <<>>

\* the query "a" found the second message by its author's first name "A" and
\* not the first
C15_Witness ==
    /\ searchQuery = <<"a">>
    /\ Len(LoadedList) = 2
    /\ searchResults = <<LoadedList[2]>>
    /\ LoadedList[2].message = <<" ">>
    /\ LoadedList[2].user = [firstName |-> << <<"A">> >>, username |-> <<>>]

\* ----------------------------------------------- mention suggestions (claims)
\* the token being typed: what follows the last '@'
Token ==
    IF \E i \in DOMAIN newMessage : newMessage[i] = "@"
    THEN LET at == CHOOSE i \in DOMAIN newMessage :
                      newMessage[i] = "@" /\ \A j \in DOMAIN newMessage : newMessage[j] = "@" => j <= i
         IN  [before |-> SubSeq(newMessage, 1, at - 1),
              text |-> SubSeq(newMessage, at + 1, Len(newMessage))]
    ELSE [before |-> newMessage, text |-> <<>>]

\* the participants whose username or first name contains the token, case ignored
Candidates ==
    SelectSeq(participants, LAMBDA p :
        \/ OccursIn(NameText(p.user.username), Token.text)
        \/ OccursIn(NameText(p.user.firstName), Token.text))

\* the popup shows the first candidates, five at most, while a token is typed
SuggestionsShown ==
    /\ Len(Presented) <= 5
    /\ showMentions =>
        /\ Len(Presented) = (IF Len(Candidates) < 5 THEN Len(Candidates) ELSE 5)
        /\ \A i \in DOMAIN Presented : Presented[i] = Candidates[i]

\* C16: the popup shows the participants whose username or first name
\* contains the token, case ignored, five at most, and a click on one replaces
\* the token by '@', its username and a space, the text before the '@' kept.
C16_InsertsUsername ==
    /\ []SuggestionsShown
    /\ [][\A i \in 1..MaxParticipants :
            SelectSuggestion(i) =>
                newMessage' = Token.before \o <<"@">>
                              \o NameText(Presented[i].user.username) \o <<" ">>]_vars

\* ------------------------------------------- settled reaction toggles (claims)
\* onSettled ran for request k after its success
ReactSuccessStep(k) == reacts[k].st = "ok" /\ reacts' = RemoveAt(reacts, k)

\* C17: when a reaction-toggle request settles, with success or with failure,
\* the step that handles it leaves a request for the list in flight and hands
\* one reaction notification to the realtime channel.
C17_SettledToggleRefreshes ==
    [][\A k \in DOMAIN reacts :
        (ReactSuccessStep(k) \/ ReactErrorStep(k)) =>
            /\ fetch'.st = "sent"
            /\ sent' = <<[type |-> "message_reaction"]>>]_vars

\* a toggle has succeeded while no list request was in flight: the
\* invalidation has put one in flight and the notification has gone out
C17_Witness ==
    /\ lastOp.op = "reacted"
    /\ reacts = <<>>
    /\ fetch.st = "sent"
    /\ sent = <<[type |-> "message_reaction"]>>
    /\ cache # NoData
    /\ cache # Some(ListMessages(store))

\* ------------------------------------- counts and reacting users (claims)
\* MessageReaction: an entry's count agrees with its array of reacting users
CountMatchesUsers(r) ==
    /\ "users" \in DOMAIN r
    /\ r.count = Cardinality(r.users)

\* C18: in every cached list that optimistic toggles produce from a list in
\* which each reaction entry's count equals the size of its set of reacting
\* users, each reaction entry's count equals the size of that set.
C18_CountIsUserSetSize ==
    cache # NoData =>
        \A i \in DOMAIN Data(cache) :
            \A k \in DOMAIN Reactions(Data(cache)[i]) :
                CountMatchesUsers(Reactions(Data(cache)[i])[k])

\* -------------------------------------- failed sends and the cache (claims)
\* the provisional entries of a cached value
TempEntries(cached) ==
    IF cached = NoData THEN {}
    ELSE {Data(cached)[i] : i \in {j \in DOMAIN Data(cached) : IsTemp(Data(cached)[j].id)}}

\* every send so far has settled and none was stored: each provisional entry
\* that is cached belongs to a send whose create request failed
EverySendFailed ==
    /\ creates = <<>>
    /\ \A i \in DOMAIN store : store[i].userId # ME

\* C19 as stated: the handler of a failed create request leaves the cached
\* value as it is, and afterwards the provisional message of a failed send
\* stays cached, unchanged, in every step other than a re-fetch response
\* replacing the whole cached value.
C19_ProvisionalStaysUntilRefetch ==
    [][ /\ \A k \in DOMAIN creates : CreateErrorStep(k) => cache' = cache
        /\ (EverySendFailed /\ ~FetchResolveStep) =>
                TempEntries(cache) \subseteq TempEntries(cache')
      ]_vars

\* C19, amended: the handler of a failed create request leaves the cached
\* value as it is and starts no re-fetch; afterwards the provisional message
\* of a failed send stays cached, unchanged, in every step other than a
\* re-fetch response replacing the whole cached value, an optimistic reaction
\* toggle, and the rollback of a failed reaction toggle to its snapshot.
C19_ProvisionalStaysUntilReplaced ==
    [][ /\ \A k \in DOMAIN creates :
            CreateErrorStep(k) => (cache' = cache /\ fetch' = fetch)
        /\ (/\ EverySendFailed
            /\ ~FetchResolveStep
            /\ ~ToggleStep
            /\ ~(\E k \in DOMAIN reacts : ReactErrorStep(k))) =>
                TempEntries(cache) \subseteq TempEntries(cache')
      ]_vars

\* a send has failed with nothing in flight any more: its notice is up and
\* its provisional message is still the last entry of the cached list
C19_Witness ==
    /\ notice.title = "Error"
    /\ EverySendFailed
    /\ reacts = <<>>
    /\ fetch.st = "idle"
    /\ cache # NoData
    /\ TempEntries(cache) # {}
    /\ IsTemp(Data(cache)[Len(Data(cache))].id)

\* ------------------------------------------ eventual consistency (claims)
\* every create, toggle and list request has settled
Quiescent ==
    /\ creates = <<>>
    /\ reacts = <<>>
    /\ fetch.st = "idle"

\* C20: once every request has settled and no notification is undelivered,
\* the cached message list is the list of the store, nothing lost, nothing
\* duplicated, and no provisional entry is left in it.
C20_QuiescentCacheIsStore ==
    Quiescent =>
        /\ cache = Some(ListMessages(store))
        /\ TempEntries(cache) = {}

\* ------------------------------------------------ timers at teardown (claims)
\* C21: once the component has been torn down no timer is pending (the
\* typing-expiry timers and the typing-stop timer have all been cancelled), so
\* no timer callback can run after teardown.
C21_NoTimerAfterTeardown == ~mounted => timers = <<>>

\* --------------------------------------------- explicit typing-stop (claims)
\* a typing-stop signal of a remote user in the current room
StopSignals ==
    {data \in WsMessages :
        /\ data.type = "user_typing"
        /\ data.challengeId = ROOM
        /\ data.userId \in RemoteUsers
        /\ ~data.isTyping}

\* C22: the step that handles a typing-stop signal of remote user U in the
\* current room leaves U out of the typing set, and every other user's entry
\* is what it was, in the same order.
C22_StopRemovesOnlyThatUser ==
    [][\A data \in StopSignals :
        OnMessage(data) =>
            /\ \A i \in DOMAIN typingUsers' : typingUsers'[i].userId # data.userId
            /\ typingUsers' = SelectSeq(typingUsers, LAMBDA e : e.userId # data.userId)]_vars

\* A and B were both typing and A's stop has just arrived, before A's timer
\* ran out: A is gone, B is still shown
C22_Witness ==
    /\ stopSince["A"]
    /\ sinceSignal = 0
    /\ sinceStart["A"] < TYPING_TTL
    /\ sinceStart["B"] < TYPING_TTL
    /\ ~stopSince["B"]
    /\ typingUsers # <<>>
    /\ \A i \in DOMAIN typingUsers : typingUsers[i].userId = "B"

\* ------------------------------------------- one entry per user (claims)
\* the positions of u's entries in the typing set
EntriesFor(list, u) == {i \in DOMAIN list : list[i].userId = u}

\* C23: the typing set never holds two entries with the same user id, and the
\* step that handles a typing-start of a user leaves exactly one entry for
\* that user, the new one, at the end of the set.
C23_OneEntryPerUser ==
    /\ [](\A u \in AllUsers : Cardinality(EntriesFor(typingUsers, u)) <= 1)
    /\ [][\A data \in WsMessages :
            (IsTypingStart(data) /\ OnMessage(data)) =>
                /\ EntriesFor(typingUsers', data.userId) = {Len(typingUsers')}
                /\ typingUsers'[Len(typingUsers')].name = TypingName(data)]_vars

\* a second typing-start of A has arrived while A was shown (two of A's
\* expiry timers are pending) and A has one entry
C23_Witness ==
    /\ Cardinality({i \in DOMAIN timers :
                        timers[i].kind = "typingExpiry" /\ timers[i].user = "A"}) >= 2
    /\ sinceStart["A"] = 0
    /\ Cardinality(EntriesFor(typingUsers, "A")) = 1

\* ------------------------------------------------- no retry (claims)
\* the requests of a mutation that have been issued and not yet answered
InFlight(requests) == {k \in DOMAIN requests : requests[k].st = "sent"}

\* C24: a create request comes into flight only in a step in which the user
\* sends (one request per send), a toggle request only in a step in which
\* the user toggles (one request per toggle, with its optimistic transform),
\* and after a failed list request a new one is made only by the
\* invalidation of a settling create or toggle: nothing is issued again
\* because it failed.
C24_NoAutomaticRetry ==
    [][ /\ Cardinality(InFlight(creates')) > Cardinality(InFlight(creates)) =>
            /\ sendSeq' = sendSeq + 1
            /\ creates' = Append(creates, creates'[Len(creates')])
        /\ Cardinality(InFlight(reacts')) > Cardinality(InFlight(reacts)) =>
            /\ reacts' = Append(reacts, reacts'[Len(reacts')])
            /\ reacts'[Len(reacts')].previousMessages = cache
            /\ cache' = OptimisticToggle(cache, reacts'[Len(reacts')].messageId,
                                         reacts'[Len(reacts')].emoji)
        /\ (fetch.st = "failed" /\ fetch'.st = "sent") =>
            (Len(creates') < Len(creates) \/ Len(reacts') < Len(reacts))
      ]_vars

\* a send has failed and a toggle has failed, both have been handled, and no
\* create or toggle request is in flight
C24_Witness ==
    /\ notice.title = "Error"
    /\ lastOp.op = "reactFailed"
    /\ sendSeq = 1
    /\ creates = <<>>
    /\ reacts = <<>>

\* --------------------------------------------- initializeDatabase (claims)
\* the file positions of the statements, in file order
StatementPositions == [k \in DOMAIN statements |-> statements[k].at]

\* C25: the statements are handed to the database one at a time in file
\* order; a statement that fails, benignly or not, is followed by the next
\* one; the function returns (true) only after every statement has been
\* executed, however many failed; and it throws only when the file could not
\* be read, before any statement was executed.
C25_BestEffortInit ==
    /\ [](executed = SubSeq(StatementPositions, 1, stmtIndex))
    /\ [](dbPc = "returned" =>
            /\ executed = StatementPositions
            /\ successCount + skipCount + errorCount = Len(statements))
    /\ [](dbPc = "threw" => (executed = <<>> /\ statements = <<>>))
    /\ [][dbPc = "loop" => dbPc' \in {"loop", "returned"}]_vars

\* the function has returned although a statement failed with an error that
\* is not benign, and a statement after that one was executed successfully
C25_Witness ==
    /\ dbPc = "returned"
    /\ errorCount >= 1
    /\ \E k \in DOMAIN statements :
            /\ k < Len(statements)
            /\ statements[k].kind = "other"
            /\ statements[k + 1].kind = "ok"
    /\ successCount >= 1
    /\ Len(executed) = Len(statements)

\* ------------------------------------------ one send at a time (claims)
\* C26: at most one create request of this client is pending at any time.
C26_OneCreatePending == Len(creates) <= 1

\* ---------------------------------------- join and leave alternate (claims)
\* the given presence signals, sent after a latest signal of type prev,
\* continue an alternation that starts with a join
Alternates(prev, signals) ==
    \A k \in DOMAIN signals :
        signals[k].type =
            IF (IF k = 1 THEN prev ELSE signals[k - 1].type) = "challenge_user_join"
            THEN "challenge_user_leave"
            ELSE "challenge_user_join"

\* C27: across connection changes, user resolution and teardown the join and
\* leave signals of the page alternate, the first being a join: a leave
\* comes only after a join not yet followed by a leave, a join only first or
\* after a leave.
C27_JoinLeaveAlternate ==
    [][(Connect \/ Disconnect \/ ResolveUser \/ Unmount) =>
            Alternates(lastPresence, sent')]_vars

\* ------------------------------------- every start gets its stop (claims)
TypingStartSent == \E k \in DOMAIN sent : sent[k] = TypingSignal(TRUE)

TypingStopSent == \E k \in DOMAIN sent : sent[k] = TypingSignal(FALSE)

\* C28: whenever the page has sent a typing-start, it later sends a
\* typing-stop, whatever happens in between (edits, a send, a connection
\* change, teardown).
C28_StartLeadsToStop == TypingStartSent ~> TypingStopSent

\* --------------------------------------- frame of the transform (claims)
\* the fields of a message other than its reaction list
OtherFields(message) == (DOMAIN message) \ {"reactions"}

\* C29: after an optimistic toggle the cached list has the messages it had,
\* in the same order; every message other than the targeted one is what it
\* was; the targeted message has the same fields with the same values apart
\* from its reaction list; and with no cached message of the given id, or
\* nothing cached, the cached value is what it was.
C29_ToggleFrame ==
    lastOp.op = "toggle" =>
        IF lastCache = NoData THEN cache = NoData
        ELSE /\ cache # NoData
             /\ Len(Data(cache)) = Len(Data(lastCache))
             /\ \A i \in DOMAIN Data(lastCache) :
                    IF i \in Targets(lastCache)
                    THEN /\ OtherFields(Data(cache)[i]) = OtherFields(Data(lastCache)[i])
                         /\ \A f \in OtherFields(Data(lastCache)[i]) :
                                Data(cache)[i][f] = Data(lastCache)[i][f]
                    ELSE Data(cache)[i] = Data(lastCache)[i]
             /\ Targets(lastCache) = {} => cache = lastCache

\* the first of two cached messages was toggled: its reaction list changed
\* and the second message, which carries reactions, is as it was
C29_Witness ==
    /\ lastOp.op = "toggle"
    /\ lastCache # NoData
    /\ Len(Data(lastCache)) = 2
    /\ Targets(lastCache) = {1}
    /\ Reactions(Data(cache)[1]) # Reactions(Data(lastCache)[1])
    /\ Reactions(Data(cache)[2]) # <<>>
    /\ Data(cache)[2] = Data(lastCache)[2]

\* ------------------------------------- filtering of the events (claims)
\* the messages the handler is to ignore: those of another room, and the
\* typing messages that carry no user id or the signed-in user's own
Ignored ==
    {data \in NamedMessages :
        \/ data.challengeId # ROOM
        \/ /\ data.type = "user_typing"
           /\ (data.userId = None \/ data.userId = user)}

====
